---- MODULE Spec2Model ----
(***************************************************************************)
(* The sales dashboard of src/app.py as a state machine.                   *)
(*                                                                         *)
(* One Streamlit session: the script of app.py is run from top to bottom   *)
(* at start-up and again after every interaction (a file upload, the       *)
(* removal of the upload, a change of one of the three multiselects).      *)
(* Each action below is one interaction followed by the whole script run.  *)
(*                                                                         *)
(* Text is a sequence of ASCII codes, so that str.lower, str.replace,      *)
(* str.endswith, the substring test, the parse of a number or of a date,   *)
(* the formatting of a month period and the lexicographic order of group   *)
(* keys are computed as Python/pandas compute them.  Amounts are exact     *)
(* decimals held in tenths (1.5 is 15).                                    *)
(***************************************************************************)
EXTENDS Integers, Sequences, FiniteSets, TLC

\* Longest uploaded table, in data rows.
MaxRows == 2

----------------------------------------------------------------------------
(* Text *)

\* "order_date", the substring load_data looks for
T_order_date == <<111, 114, 100, 101, 114, 95, 100, 97, 116, 101>>
\* "month_year", the derived column
T_month_year == <<109, 111, 110, 116, 104, 95, 121, 101, 97, 114>>
\* "Month-Year", "Region", "Category", "Segment", "Sales", "Profit",
\* "Sub-Category", "State": the names the dashboard reads
T_MonthYear == <<77, 111, 110, 116, 104, 45, 89, 101, 97, 114>>
T_Region == <<82, 101, 103, 105, 111, 110>>
T_Category == <<67, 97, 116, 101, 103, 111, 114, 121>>
T_Segment == <<83, 101, 103, 109, 101, 110, 116>>
T_Sales == <<83, 97, 108, 101, 115>>
T_Profit == <<80, 114, 111, 102, 105, 116>>
T_SubCategory == <<83, 117, 98, 45, 67, 97, 116, 101, 103, 111, 114, 121>>
T_State == <<83, 116, 97, 116, 101>>

\* str.lower() on one ASCII character
LowerChar(c) == IF c >= 65 /\ c <= 90 THEN c + 32 ELSE c

\* str.lower()
StrLower(s) == [i \in 1..Len(s) |-> LowerChar(s[i])]

\* str.replace(a, b) for one-character a and b
StrReplace(s, a, b) == [i \in 1..Len(s) |-> IF s[i] = a THEN b ELSE s[i]]

\* sub in s
Contains(s, sub) ==
    \E k \in 0..(Len(s) - Len(sub)) : \A i \in 1..Len(sub) : s[k + i] = sub[i]

\* s.endswith(suf)
EndsWith(s, suf) ==
    /\ Len(s) >= Len(suf)
    /\ \A i \in 1..Len(suf) : s[Len(s) - Len(suf) + i] = suf[i]

\* s < t for two Python strings (code point order)
StrLess(s, t) ==
    \E k \in 1..(Len(t)) :
        /\ \A i \in 1..(k - 1) : i <= Len(s) /\ s[i] = t[i]
        /\ \/ Len(s) = k - 1
           \/ Len(s) >= k /\ s[k] < t[k]

IsDigit(c) == c >= 48 /\ c <= 57

RECURSIVE DigitsValue(_)
\* the value of a sequence of decimal digits
DigitsValue(s) ==
    IF Len(s) = 0 THEN 0
    ELSE 10 * DigitsValue(SubSeq(s, 1, Len(s) - 1)) + (s[Len(s)] - 48)

\* one decimal digit of n as text
DigitChar(d) == 48 + d

\* n >= 0 as text, zero-padded to w digits (w 2 or 4)
RECURSIVE ZeroPad(_, _)
ZeroPad(n, w) ==
    IF w = 0 THEN <<>> ELSE Append(ZeroPad(n \div 10, w - 1), DigitChar(n % 10))

----------------------------------------------------------------------------
(* Cells and tables *)

\* A DataFrame cell: a str, a float (n, in tenths), a Timestamp (n = yyyymmdd)
\* or NaT.
StrCell(s) == [t |-> "str", s |-> s, n |-> 0]
NumCell(n) == [t |-> "num", s |-> <<>>, n |-> n]
DateCell(y, m, d) == [t |-> "date", s |-> <<>>, n |-> (y * 10000) + (m * 100) + d]
NaT == [t |-> "nat", s |-> <<>>, n |-> 0]

\* A DataFrame: column labels, the index labels of the rows, the rows.
EmptyDF == [columns |-> <<>>, index |-> <<>>, data |-> <<>>]

\* What load_data returns: a DataFrame, or None (ok = FALSE).
NoneResult == [ok |-> FALSE, df |-> EmptyDF]
SomeResult(df) == [ok |-> TRUE, df |-> df]

\* df.columns contains the label
HasColumn(df, label) == \E j \in 1..Len(df.columns) : df.columns[j] = label

\* position of the (first) column with the label
ColumnPos(df, label) ==
    CHOOSE j \in 1..Len(df.columns) :
        /\ df.columns[j] = label
        /\ \A k \in 1..(j - 1) : df.columns[k] # label

\* df[label] as the sequence of its cells, in row order
Column(df, label) == [i \in 1..Len(df.data) |-> df.data[i][ColumnPos(df, label)]]

\* df.empty
IsEmptyDF(df) == Len(df.data) = 0 \/ Len(df.columns) = 0

----------------------------------------------------------------------------
(* read_csv / read_excel: from the text of a file to typed cells *)

\* the text without a leading minus sign
Unsigned(s) == IF Len(s) > 0 /\ s[1] = 45 THEN SubSeq(s, 2, Len(s)) ELSE s

\* positions of "." in s
DotPositions(s) == {i \in 1..Len(s) : s[i] = 46}

\* The parser's test for a number: [-]digits[.digit]; the amounts of the
\* modelled files carry at most one decimal.
IsNumberText(s) ==
    LET u == Unsigned(s)
        dots == DotPositions(u)
    IN  /\ Len(u) > 0
        /\ \A i \in 1..Len(u) : IsDigit(u[i]) \/ u[i] = 46
        /\ Cardinality(dots) <= 1
        /\ \A p \in dots : p > 1 /\ p >= Len(u) - 1

\* The parsed number, in tenths.
NumberValue(s) ==
    LET u == Unsigned(s)
        dots == DotPositions(u)
        sign == IF Len(s) > 0 /\ s[1] = 45 THEN -1 ELSE 1
        p == IF dots = {} THEN Len(u) + 1 ELSE CHOOSE q \in dots : TRUE
        whole == DigitsValue(SubSeq(u, 1, p - 1))
        frac == IF p < Len(u) THEN u[Len(u)] - 48 ELSE 0
    IN  sign * ((10 * whole) + frac)

\* pd.read_csv: a column is float64 when every cell of it parses as a number,
\* and object (every cell a str) otherwise.
ReadCsv(file) ==
    LET numeric(j) == \A i \in 1..Len(file.rows) : IsNumberText(file.rows[i][j])
        cell(i, j) == IF numeric(j) THEN NumCell(NumberValue(file.rows[i][j]))
                      ELSE StrCell(file.rows[i][j])
    IN  [columns |-> file.columns,
         index |-> [i \in 1..Len(file.rows) |-> i - 1],
         data |-> [i \in 1..Len(file.rows) |->
                      [j \in 1..Len(file.columns) |-> cell(i, j)]]]

\* pd.read_excel: every cell keeps its own type (a number cell is a float, a
\* text cell a str); a column that mixes them is object.
ReadExcel(file) ==
    LET cell(i, j) == IF IsNumberText(file.rows[i][j])
                      THEN NumCell(NumberValue(file.rows[i][j]))
                      ELSE StrCell(file.rows[i][j])
    IN  [columns |-> file.columns,
         index |-> [i \in 1..Len(file.rows) |-> i - 1],
         data |-> [i \in 1..Len(file.rows) |->
                      [j \in 1..Len(file.columns) |-> cell(i, j)]]]

----------------------------------------------------------------------------
(* load_data *)

\* df.columns.str.lower().str.replace(' ', '_').str.replace('-', '_')
NormalizeName(c) == StrReplace(StrReplace(StrLower(c), 32, 95), 45, 95)

NormalizeColumns(df) ==
    [df EXCEPT !.columns = [j \in 1..Len(df.columns) |-> NormalizeName(df.columns[j])]]

\* the same looking for 'date' alone
FindDateColAnyDate(df) ==
    LET hits == {j \in 1..Len(df.columns) : Contains(df.columns[j], <<100, 97, 116, 101>>)}
    IN  IF hits = {} THEN 0 ELSE CHOOSE j \in hits : \A k \in hits : j <= k
\* next((col for col in df.columns if 'order_date' in col), None):
\* the position of the first such column, 0 for None
FindDateCol(df) ==
    LET hits == {j \in 1..Len(df.columns) : Contains(df.columns[j], T_order_date)}
    IN  IF hits = {} THEN 0 ELSE CHOOSE j \in hits : \A k \in hits : j <= k

IsLeapYear(y) == y % 4 = 0 /\ (y % 100 # 0 \/ y % 400 = 0)

DaysInMonth(y, m) ==
    IF m = 2 THEN (IF IsLeapYear(y) THEN 29 ELSE 28)
    ELSE IF m \in {4, 6, 9, 11} THEN 30 ELSE 31

\* The date parser on a text cell: "YYYY-MM-DD" of a real calendar day gives
\* a Timestamp, anything else NaT (errors='coerce').
ParseDate(s) ==
    IF /\ Len(s) = 10
       /\ s[5] = 45 /\ s[8] = 45
       /\ \A i \in {1, 2, 3, 4, 6, 7, 9, 10} : IsDigit(s[i])
    THEN LET y == DigitsValue(SubSeq(s, 1, 4))
             m == DigitsValue(SubSeq(s, 6, 7))
             d == DigitsValue(SubSeq(s, 9, 10))
         IN  IF m >= 1 /\ m <= 12 /\ d >= 1 /\ d <= DaysInMonth(y, m)
             THEN DateCell(y, m, d)
             ELSE NaT
    ELSE NaT

\* pd.to_datetime(cell, errors='coerce'): a str is parsed, a float is read as
\* nanoseconds since the epoch (1970-01-01 for every amount of the model).
ToDatetimeCell(c) ==
    CASE c.t = "str" -> ParseDate(c.s)
      [] c.t = "num" -> DateCell(1970, 1, 1)
      [] OTHER -> c

\* df[date_col] = pd.to_datetime(df[date_col], errors='coerce')
ToDatetime(df, j) ==
    [df EXCEPT !.data = [i \in 1..Len(df.data) |->
                            [df.data[i] EXCEPT ![j] = ToDatetimeCell(df.data[i][j])]]]

\* the positions of the rows dropna keeps
KeptRows(df, j) == {i \in 1..Len(df.data) : df.data[i][j].t # "nat"}

\* the k-th smallest element of a set of numbers
RECURSIVE KthSmallest(_, _)
KthSmallest(S, k) ==
    LET lo == CHOOSE x \in S : \A y \in S : x <= y
    IN  IF k = 1 THEN lo ELSE KthSmallest(S \ {lo}, k - 1)

\* the rows at the positions in keep, in their order, with their index labels
TakeRows(df, keep) ==
    [df EXCEPT !.index = [k \in 1..Cardinality(keep) |-> df.index[KthSmallest(keep, k)]],
               !.data = [k \in 1..Cardinality(keep) |-> df.data[KthSmallest(keep, k)]]]

\* dropna without inplace=True, its result discarded
DropNaDiscarded(df, j) == df
\* df.dropna(subset=[date_col], inplace=True)
DropNa(df, j) == TakeRows(df, KeptRows(df, j))

\* Timestamp.to_period('M') then astype(str): "YYYY-MM"
PeriodStr(c) ==
    LET y == c.n \div 10000
        m == (c.n \div 100) % 100
    IN  ZeroPad(y, 4) \o <<45>> \o ZeroPad(m, 2)

\* df[label] = cells: replaces the column when it exists, appends it otherwise
SetColumn(df, label, cells) ==
    IF HasColumn(df, label)
    THEN [df EXCEPT !.data = [i \in 1..Len(df.data) |->
                                 [df.data[i] EXCEPT ![ColumnPos(df, label)] = cells[i]]]]
    ELSE [df EXCEPT !.columns = Append(df.columns, label),
                    !.data = [i \in 1..Len(df.data) |-> Append(df.data[i], cells[i])]]

\* df['month_year'] = df[date_col].dt.to_period('M').astype(str)
AddMonthYear(df, j) ==
    SetColumn(df, T_month_year,
              [i \in 1..Len(df.data) |-> StrCell(PeriodStr(df.data[i][j]))])

\* lines 37-44: the cleaning of a table whose date column is at position j
Clean(df, j) == AddMonthYear(DropNa(ToDatetime(df, j), j), j)

\* the messages of st.error
MsgUnsupported == "Unsupported file format. Please upload a CSV or Excel file."
MsgNoDateCol == "Could not find an 'Order Date' column in the uploaded file."
MsgProcessing == "Error processing the file"

\* load_data(uploaded_file): what it returns and the st.error messages it
\* emits.  A file whose bytes the reader cannot parse raises inside the try.
LoadData(file) ==
    IF ~(EndsWith(file.name, <<46, 99, 115, 118>>)
         \/ EndsWith(file.name, <<46, 120, 108, 115>>)
         \/ EndsWith(file.name, <<46, 120, 108, 115, 120>>))
    THEN [result |-> NoneResult, errors |-> {MsgUnsupported}]
    ELSE IF ~file.readable
    THEN [result |-> NoneResult, errors |-> {MsgProcessing}]
    ELSE LET raw == IF EndsWith(file.name, <<46, 99, 115, 118>>)
                    THEN ReadCsv(file) ELSE ReadExcel(file)
             df == NormalizeColumns(raw)
             j == FindDateCol(df)
         IN  IF j = 0
             THEN [result |-> NoneResult, errors |-> {MsgNoDateCol}]
             ELSE [result |-> SomeResult(Clean(df, j)), errors |-> {}]

----------------------------------------------------------------------------
(* The dashboard, lines 86-148 *)

\* the dict of df.rename(columns={...}, errors='ignore')
RenameLabel(c) ==
    CASE c = <<114, 101, 103, 105, 111, 110>> -> T_Region
      [] c = <<99, 97, 116, 101, 103, 111, 114, 121>> -> T_Category
      [] c = <<115, 101, 103, 109, 101, 110, 116>> -> T_Segment
      [] c = <<115, 97, 108, 101, 115>> -> T_Sales
      [] c = <<112, 114, 111, 102, 105, 116>> -> T_Profit
      [] c = <<115, 117, 98, 95, 99, 97, 116, 101, 103, 111, 114, 121>> -> T_SubCategory
      [] c = <<115, 116, 97, 116, 101>> -> T_State
      [] c = T_month_year -> T_MonthYear
      [] OTHER -> c

\* df.rename(columns=..., inplace=True, errors='ignore')
RenameColumns(df) ==
    [df EXCEPT !.columns = [j \in 1..Len(df.columns) |-> RenameLabel(df.columns[j])]]

\* a cache that hands out the cached object itself, with a filter that
\* drops the rows in place
CacheAfterRunInPlace(cachedResult, df, filtered) ==
    [cachedResult EXCEPT !.df = [@ EXCEPT !.index = filtered.index, !.data = filtered.data]]
\* What a run leaves in the cache: st.cache_data hands every run its own
\* copy and the filter builds a new table, so the cached value stays what
\* load_data returned.
CacheAfterRun(cachedResult, df, filtered) == cachedResult

\* Series.unique(): the distinct cells in order of first appearance
Unique(cells) ==
    LET firsts == {i \in 1..Len(cells) : \A k \in 1..(i - 1) : cells[k] # cells[i]}
    IN  [k \in 1..Cardinality(firsts) |-> cells[KthSmallest(firsts, k)]]

\* the set of the elements of a sequence
Range(seq) == {seq[i] : i \in 1..Len(seq)}

\* the three tests joined by | instead of &
RowMaskAny(df, region, category, segment, i) ==
    \/ df.data[i][ColumnPos(df, T_Region)] \in region
    \/ df.data[i][ColumnPos(df, T_Category)] \in category
    \/ df.data[i][ColumnPos(df, T_Segment)] \in segment
\* df['Region'].isin(region) & df['Category'].isin(category) &
\* df['Segment'].isin(segment), for the row at position i
RowMask(df, region, category, segment, i) ==
    /\ df.data[i][ColumnPos(df, T_Region)] \in region
    /\ df.data[i][ColumnPos(df, T_Category)] \in category
    /\ df.data[i][ColumnPos(df, T_Segment)] \in segment

\* df[mask].reset_index(drop=True)
ApplyFilterResetIndex(df, region, category, segment) ==
    LET keep == {i \in 1..Len(df.data) : RowMask(df, region, category, segment, i)}
    IN  [TakeRows(df, keep) EXCEPT !.index = [k \in 1..Cardinality(keep) |-> k - 1]]
\* df_filtered = df[mask]
ApplyFilter(df, region, category, segment) ==
    TakeRows(df, {i \in 1..Len(df.data) : RowMask(df, region, category, segment, i)})

RECURSIVE SumNum(_)
SumNum(cells) ==
    IF Len(cells) = 0 THEN 0 ELSE cells[1].n + SumNum(Tail(cells))

RECURSIVE ConcatStr(_)
ConcatStr(cells) ==
    IF Len(cells) = 0 THEN <<>> ELSE cells[1].s \o ConcatStr(Tail(cells))

\* Series.sum(): the sum of a float column; on an object column the cells
\* are added with +, which concatenates str cells and raises TypeError on a
\* str and a float; the sum of no cells is 0.
SeriesSum(cells) ==
    IF \A i \in 1..Len(cells) : cells[i].t = "num"
    THEN [error |-> "", value |-> NumCell(SumNum(cells))]
    ELSE IF \A i \in 1..Len(cells) : cells[i].t = "str"
    THEN [error |-> "", value |-> StrCell(ConcatStr(cells))]
    ELSE [error |-> "TypeError", value |-> NumCell(0)]

\* int(x) of a float in tenths: truncation toward zero
Trunc(n) == IF n >= 0 THEN n \div 10 ELSE -((-n) \div 10)

\* int(s) of a str: an optionally signed run of digits, ValueError otherwise
IsIntText(s) ==
    LET u == IF Len(s) > 0 /\ s[1] \in {43, 45} THEN SubSeq(s, 2, Len(s)) ELSE s
    IN  Len(u) > 0 /\ \A i \in 1..Len(u) : IsDigit(u[i])

IntTextValue(s) ==
    LET u == IF Len(s) > 0 /\ s[1] \in {43, 45} THEN SubSeq(s, 2, Len(s)) ELSE s
    IN  IF Len(s) > 0 /\ s[1] = 45 THEN -DigitsValue(u) ELSE DigitsValue(u)

\* int(df_filtered[label].sum())
IntOfSum(cells) ==
    LET sum == SeriesSum(cells)
    IN  IF sum.error # "" THEN [error |-> sum.error, value |-> 0]
        ELSE IF sum.value.t = "num" THEN [error |-> "", value |-> Trunc(sum.value.n)]
        ELSE IF IsIntText(sum.value.s)
        THEN [error |-> "", value |-> IntTextValue(sum.value.s)]
        ELSE [error |-> "ValueError", value |-> 0]

RECURSIVE Gcd(_, _)
Gcd(a, b) == IF b = 0 THEN a ELSE Gcd(b, a % b)

Abs(n) == IF n < 0 THEN -n ELSE n

\* a rational number in lowest terms, den > 0
Ratio(num, den) ==
    LET g == Gcd(Abs(num), den)
    IN  [num |-> num \div g, den |-> den \div g]

\* (total_profit / total_sales) * 100 if total_sales > 0 else 0
ProfitMargin(total_sales, total_profit) ==
    IF total_sales > 0 THEN Ratio(100 * total_profit, total_sales) ELSE Ratio(0, 1)

----------------------------------------------------------------------------
(* groupby(...).sum() and sort_values *)

\* a < b for two cells of one type (Python raises TypeError for a str and a
\* float)
CellLess(a, b) == IF a.t = "str" THEN StrLess(a.s, b.s) ELSE a.n < b.n

SameType(cells) == \A a \in cells, b \in cells : a.t = b.t

\* the cells of a set in ascending order
RECURSIVE SortedCells(_)
SortedCells(S) ==
    IF S = {} THEN <<>>
    ELSE LET lo == CHOOSE x \in S : \A y \in S : x = y \/ CellLess(x, y)
         IN  <<lo>> \o SortedCells(S \ {lo})

\* The group keys of df.groupby(by): sort=True is the default, the keys come
\* in ascending order.
GroupKeys(df, by) == SortedCells(Range(Column(df, by)))

\* the cells of column label in the rows whose column by holds key
GroupCells(df, by, key, label) ==
    LET rows == {i \in 1..Len(df.data) : df.data[i][ColumnPos(df, by)] = key}
    IN  [k \in 1..Cardinality(rows) |->
            df.data[KthSmallest(rows, k)][ColumnPos(df, label)]]

\* df.groupby(by)[label].sum(): one (key, sum) per group, in key order
GroupSum(df, by, label) ==
    LET keys == GroupKeys(df, by)
        sums == [k \in 1..Len(keys) |-> SeriesSum(GroupCells(df, by, keys[k], label))]
    IN  IF ~SameType(Range(Column(df, by)))
           \/ \E k \in 1..Len(keys) : sums[k].error # ""
        THEN [error |-> "TypeError", rows |-> <<>>]
        ELSE [error |-> "",
              rows |-> [k \in 1..Len(keys) |-> [key |-> keys[k], value |-> sums[k].value]]]

\* df.groupby('Month-Year').agg({'Sales':'sum', 'Profit':'sum'}).reset_index()
MonthlyAgg(df) ==
    LET s == GroupSum(df, T_MonthYear, T_Sales)
        p == GroupSum(df, T_MonthYear, T_Profit)
    IN  IF s.error # "" \/ p.error # ""
        THEN [error |-> "TypeError", rows |-> <<>>]
        ELSE [error |-> "",
              rows |-> [k \in 1..Len(s.rows) |->
                           [key |-> s.rows[k].key, sales |-> s.rows[k].value,
                            profit |-> p.rows[k].value]]]

\* the permutations of 1..n
Perms(n) == {f \in [1..n -> 1..n] : \A i \in 1..n, k \in 1..n : f[i] = f[k] => i = k}

\* the two directions exchanged
InOrderReversed(rows, ascending) ==
    \A i \in 1..(Len(rows) - 1) :
        IF ascending THEN ~CellLess(rows[i].value, rows[i + 1].value)
        ELSE ~CellLess(rows[i + 1].value, rows[i].value)
\* is the sequence of (key, value) in the requested order of value
InOrder(rows, ascending) ==
    \A i \in 1..(Len(rows) - 1) :
        IF ascending THEN ~CellLess(rows[i + 1].value, rows[i].value)
        ELSE ~CellLess(rows[i].value, rows[i + 1].value)

\* Series.sort_values(ascending=...): the default kind is quicksort, which is
\* not a stable sort, so every arrangement of the groups that is in order of
\* value is a possible result.
SortValues(rows, ascending) ==
    {s \in {[k \in 1..Len(rows) |-> rows[f[k]]] : f \in Perms(Len(rows))} :
        InOrder(s, ascending)}

----------------------------------------------------------------------------
(* The files of the session *)

\* 2024-02-15, East, Technology, Consumer, Phones, NY, 2.5, 0.5
Row1 ==
    <<<<50, 48, 50, 52, 45, 48, 50, 45, 49, 53>>,
      <<69, 97, 115, 116>>,
      <<84, 101, 99, 104, 110, 111, 108, 111, 103, 121>>,
      <<67, 111, 110, 115, 117, 109, 101, 114>>,
      <<80, 104, 111, 110, 101, 115>>,
      <<78, 89>>,
      <<50, 46, 53>>,
      <<48, 46, 53>>>>

\* 2024-10-03, West, Furniture, Consumer, Chairs, CA, 1.5, -1.0
Row2 ==
    <<<<50, 48, 50, 52, 45, 49, 48, 45, 48, 51>>,
      <<87, 101, 115, 116>>,
      <<70, 117, 114, 110, 105, 116, 117, 114, 101>>,
      <<67, 111, 110, 115, 117, 109, 101, 114>>,
      <<67, 104, 97, 105, 114, 115>>,
      <<67, 65>>,
      <<49, 46, 53>>,
      <<45, 49, 46, 48>>>>

\* n/a, East, Furniture, Corporate, Tables, NY, 2.0, 0.5  (no date)
Row3 ==
    <<<<110, 47, 97>>,
      <<69, 97, 115, 116>>,
      <<70, 117, 114, 110, 105, 116, 117, 114, 101>>,
      <<67, 111, 114, 112, 111, 114, 97, 116, 101>>,
      <<84, 97, 98, 108, 101, 115>>,
      <<78, 89>>,
      <<50, 46, 48>>,
      <<48, 46, 53>>>>

\* 2023-11-08, West, Technology, Corporate, Phones, TX, abc, 1.0  (sales is no number)
Row4 ==
    <<<<50, 48, 50, 51, 45, 49, 49, 45, 48, 56>>,
      <<87, 101, 115, 116>>,
      <<84, 101, 99, 104, 110, 111, 108, 111, 103, 121>>,
      <<67, 111, 114, 112, 111, 114, 97, 116, 101>>,
      <<80, 104, 111, 110, 101, 115>>,
      <<84, 88>>,
      <<97, 98, 99>>,
      <<49, 46, 48>>>>

\* 2023-11-08, East, Furniture, Corporate, Chairs, TX, 2.5, 0.5
Row5 ==
    <<<<50, 48, 50, 51, 45, 49, 49, 45, 48, 56>>,
      <<69, 97, 115, 116>>,
      <<70, 117, 114, 110, 105, 116, 117, 114, 101>>,
      <<67, 111, 114, 112, 111, 114, 97, 116, 101>>,
      <<67, 104, 97, 105, 114, 115>>,
      <<84, 88>>,
      <<50, 46, 53>>,
      <<48, 46, 53>>>>

RowPool == {Row1, Row2, Row3, Row4, Row5}

\* Order Date, Region, Category, Segment, Sub-Category, State, Sales, Profit
HeaderStandard ==
    <<<<79, 114, 100, 101, 114, 32, 68, 97, 116, 101>>,
      <<82, 101, 103, 105, 111, 110>>,
      <<67, 97, 116, 101, 103, 111, 114, 121>>,
      <<83, 101, 103, 109, 101, 110, 116>>,
      <<83, 117, 98, 45, 67, 97, 116, 101, 103, 111, 114, 121>>,
      <<83, 116, 97, 116, 101>>,
      <<83, 97, 108, 101, 115>>,
      <<80, 114, 111, 102, 105, 116>>>>

\* ORDER-DATE, REGION, CATEGORY, SEGMENT, SUB CATEGORY, STATE, SALES, PROFIT
HeaderUpper ==
    <<<<79, 82, 68, 69, 82, 45, 68, 65, 84, 69>>,
      <<82, 69, 71, 73, 79, 78>>,
      <<67, 65, 84, 69, 71, 79, 82, 89>>,
      <<83, 69, 71, 77, 69, 78, 84>>,
      <<83, 85, 66, 32, 67, 65, 84, 69, 71, 79, 82, 89>>,
      <<83, 84, 65, 84, 69>>,
      <<83, 65, 76, 69, 83>>,
      <<80, 82, 79, 70, 73, 84>>>>

\* Ship Date, Region, Category, Segment, Sub-Category, State, Sales, Profit
HeaderShipDate ==
    <<<<83, 104, 105, 112, 32, 68, 97, 116, 101>>,
      <<82, 101, 103, 105, 111, 110>>,
      <<67, 97, 116, 101, 103, 111, 114, 121>>,
      <<83, 101, 103, 109, 101, 110, 116>>,
      <<83, 117, 98, 45, 67, 97, 116, 101, 103, 111, 114, 121>>,
      <<83, 116, 97, 116, 101>>,
      <<83, 97, 108, 101, 115>>,
      <<80, 114, 111, 102, 105, 116>>>>

\* Order Date, Area, Category, Segment, Sub-Category, State, Sales, Profit
HeaderNoRegion ==
    <<<<79, 114, 100, 101, 114, 32, 68, 97, 116, 101>>,
      <<65, 114, 101, 97>>,
      <<67, 97, 116, 101, 103, 111, 114, 121>>,
      <<83, 101, 103, 109, 101, 110, 116>>,
      <<83, 117, 98, 45, 67, 97, 116, 101, 103, 111, 114, 121>>,
      <<83, 116, 97, 116, 101>>,
      <<83, 97, 108, 101, 115>>,
      <<80, 114, 111, 102, 105, 116>>>>

\* Order Date, Region, Category, Segment, Sub-Category, State, Revenue, Profit
HeaderNoSales ==
    <<<<79, 114, 100, 101, 114, 32, 68, 97, 116, 101>>,
      <<82, 101, 103, 105, 111, 110>>,
      <<67, 97, 116, 101, 103, 111, 114, 121>>,
      <<83, 101, 103, 109, 101, 110, 116>>,
      <<83, 117, 98, 45, 67, 97, 116, 101, 103, 111, 114, 121>>,
      <<83, 116, 97, 116, 101>>,
      <<82, 101, 118, 101, 110, 117, 101>>,
      <<80, 114, 111, 102, 105, 116>>>>

HeaderPool ==
    {HeaderStandard, HeaderUpper, HeaderShipDate, HeaderNoRegion, HeaderNoSales}

\* the tables of at most MaxRows data rows
RowSeqs == UNION {[1..n -> RowPool] : n \in 0..MaxRows}

\* uploaded_file = None
NoFile == [name |-> <<>>, readable |-> FALSE, columns |-> <<>>, rows |-> <<>>]

\* What the user may upload: orders.csv with any header and rows,
\* orders.xlsx with the standard header, ORDERS.CSV (the uploader's type
\* filter ignores case, endswith does not), and an .xlsx whose bytes are not
\* a workbook.
Files ==
    {[name |-> <<111, 114, 100, 101, 114, 115, 46, 99, 115, 118>>, readable |-> TRUE, columns |-> h, rows |-> r] :
        h \in HeaderPool, r \in RowSeqs}
    \cup {[name |-> <<111, 114, 100, 101, 114, 115, 46, 120, 108, 115, 120>>, readable |-> TRUE, columns |-> HeaderStandard, rows |-> r] :
        r \in RowSeqs}
    \cup {[name |-> <<79, 82, 68, 69, 82, 83, 46, 67, 83, 86>>, readable |-> TRUE, columns |-> HeaderStandard,
           rows |-> <<Row1>>],
          [name |-> <<111, 114, 100, 101, 114, 115, 46, 120, 108, 115, 120>>, readable |-> FALSE, columns |-> <<>>, rows |-> <<>>]}

\* data/superstore.csv, when the working directory holds it
SampleFile ==
    [name |-> <<100, 97, 116, 97, 47, 115, 117, 112, 101, 114, 115, 116, 111, 114, 101, 46, 99, 115, 118>>,
     readable |-> TRUE, columns |-> HeaderStandard, rows |-> <<Row1>>]

----------------------------------------------------------------------------
(* One run of the script, block by block *)

NoException == [type |-> "", line |-> 0]
Raised(type, line) == [type |-> type, line |-> line]

\* a multiselect that was not rendered
NoWidget == [rendered |-> FALSE, options |-> <<>>, value |-> {}]
NoWidgets == [region |-> NoWidget, category |-> NoWidget, segment |-> NoWidget]

NoKpi == [total_sales |-> 0, total_profit |-> 0, profit_margin |-> Ratio(0, 1)]

\* lines 74-82: load_data(uploaded_file), or load_sample_data(), whose
\* open() is outside load_data's try; present says whether the working
\* directory holds data/superstore.csv at that moment
Load(file, present) ==
    IF file.name = <<>> /\ ~present
    THEN [result |-> NoneResult, errors |-> {},
          exception |-> Raised("FileNotFoundError", 81)]
    ELSE LET r == LoadData(IF file.name = <<>> THEN SampleFile ELSE file)
         IN  [result |-> r.result, errors |-> r.errors, exception |-> NoException]

\* line 86: if df is not None and not df.empty, reached when the load raised
\* nothing
Guard(lr) == lr.exception.type = "" /\ lr.result.ok /\ ~IsEmptyDF(lr.result.df)

\* lines 88-90: the script's df
RenamedDf(lr) == IF Guard(lr) THEN RenameColumns(lr.result.df) ELSE EmptyDF

\* st.sidebar.multiselect(label, options=options, default=options): the
\* widget keeps the value the user gave it while it is rendered with the same
\* options from one run to the next, and starts at its default otherwise.
Multiselect(prev, options) ==
    [rendered |-> TRUE,
     options |-> options,
     value |-> IF prev.rendered /\ prev.options = options
               THEN prev.value ELSE Range(options)]

\* lines 94-96: the three multiselects; df[label] raises KeyError when the
\* column is missing, and the widgets after it are not rendered.  w holds the
\* widgets as the previous run (and the user) left them.
Multiselects(entered, d, w) ==
    LET r == entered /\ HasColumn(d, T_Region)
        c == r /\ HasColumn(d, T_Category)
        g == c /\ HasColumn(d, T_Segment)
    IN  [region |-> IF r THEN Multiselect(w.region, Unique(Column(d, T_Region)))
                    ELSE NoWidget,
         category |-> IF c THEN Multiselect(w.category, Unique(Column(d, T_Category)))
                      ELSE NoWidget,
         segment |-> IF g THEN Multiselect(w.segment, Unique(Column(d, T_Segment)))
                     ELSE NoWidget]

\* lines 99-103
Filtered(d, ws) ==
    IF ws.segment.rendered
    THEN ApplyFilter(d, ws.region.value, ws.category.value, ws.segment.value)
    ELSE EmptyDF

\* The exception that ends the run, with the line that raises it: the first
\* of the script's statements to fail.
RunException(lr, d, ws, f) ==
    IF lr.exception.type # "" THEN lr.exception
    ELSE IF ~Guard(lr) THEN NoException
    ELSE IF ~ws.region.rendered THEN Raised("KeyError", 94)
    ELSE IF ~ws.category.rendered THEN Raised("KeyError", 95)
    ELSE IF ~ws.segment.rendered THEN Raised("KeyError", 96)
    ELSE IF ~HasColumn(f, T_Sales) THEN Raised("KeyError", 110)
    ELSE IF IntOfSum(Column(f, T_Sales)).error # ""
    THEN Raised(IntOfSum(Column(f, T_Sales)).error, 110)
    ELSE IF ~HasColumn(f, T_Profit) THEN Raised("KeyError", 111)
    ELSE IF IntOfSum(Column(f, T_Profit)).error # ""
    THEN Raised(IntOfSum(Column(f, T_Profit)).error, 111)
    ELSE IF MonthlyAgg(f).error # "" THEN Raised("TypeError", 123)
    ELSE IF GroupSum(f, T_Category, T_Sales).error # "" THEN Raised("TypeError", 131)
    ELSE IF ~HasColumn(f, T_SubCategory) THEN Raised("KeyError", 137)
    ELSE IF GroupSum(f, T_SubCategory, T_Profit).error # "" THEN Raised("TypeError", 137)
    ELSE IF ~HasColumn(f, T_State) THEN Raised("KeyError", 143)
    ELSE IF GroupSum(f, T_State, T_Sales).error # "" THEN Raised("TypeError", 143)
    ELSE NoException

\* The last block of the script the run completed.
Progress(lr, e) ==
    IF ~Guard(lr) THEN (IF e.type = "" THEN "waiting" ELSE "none")
    ELSE CASE e.line \in {94, 95, 96} -> "renamed"
           [] e.line \in {110, 111} -> "filtered"
           [] e.line = 123 -> "kpis"
           [] e.line = 131 -> "monthly"
           [] e.line = 137 -> "category"
           [] e.line = 143 -> "subcat"
           [] OTHER -> "done"

KpisShown(p) == p \in {"kpis", "monthly", "category", "subcat", "done"}

\* lines 110-112
Kpis(f) ==
    LET ts == IntOfSum(Column(f, T_Sales)).value
        tp == IntOfSum(Column(f, T_Profit)).value
    IN  [total_sales |-> ts, total_profit |-> tp, profit_margin |-> ProfitMargin(ts, tp)]

----------------------------------------------------------------------------
(* The session *)

VARIABLES
    uploaded_file,      \* the file in the uploader, NoFile for none
    loaded,             \* what the (cached) load gave: result, errors, exception
    widgets,            \* the three multiselects as the last run rendered them
    df,                 \* the script's df after the rename
    df_filtered,
    kpi,                \* total_sales, total_profit, profit_margin
    monthly_analysis,
    sales_by_category,
    profit_by_subcat,
    sales_by_state,
    progress,           \* the last block of the script the run completed
    exception,          \* the exception that ended the run, if any
    messages,           \* the st.error messages on the page
    narrowed            \* history: a selection on this table has excluded a row

vars ==
    <<uploaded_file, loaded, widgets, df, df_filtered, kpi,
      monthly_analysis, sales_by_category, profit_by_subcat, sales_by_state,
      progress, exception, messages, narrowed>>

\* The state a run of the script leaves, given the file in the uploader, what
\* the load gives (from the cache on a rerun) and the widgets before the run.
\* The blocks of the script follow one another; an exception ends the run and
\* the later blocks leave nothing.
Run(file, lr, w, wasNarrowed) ==
    /\ uploaded_file' = file
    /\ messages' = lr.errors
    /\ df' = RenamedDf(lr)
    /\ widgets' = Multiselects(Guard(lr), df', w)
    /\ df_filtered' = Filtered(df', widgets')
    /\ exception' = RunException(lr, df', widgets', df_filtered')
    /\ progress' = Progress(lr, exception')
    /\ kpi' = IF KpisShown(progress') THEN Kpis(df_filtered') ELSE NoKpi
    /\ monthly_analysis' = IF progress' \in {"monthly", "category", "subcat", "done"}
                           THEN MonthlyAgg(df_filtered').rows ELSE <<>>
    /\ sales_by_category' \in
           IF progress' \in {"category", "subcat", "done"}
           THEN SortValues(GroupSum(df_filtered', T_Category, T_Sales).rows, FALSE)
           ELSE {<<>>}
    /\ profit_by_subcat' \in
           IF progress' \in {"subcat", "done"}
           THEN SortValues(GroupSum(df_filtered', T_SubCategory, T_Profit).rows, TRUE)
           ELSE {<<>>}
    /\ sales_by_state' = IF progress' = "done"
                         THEN GroupSum(df_filtered', T_State, T_Sales).rows ELSE <<>>
    /\ loaded' = [lr EXCEPT !.result = CacheAfterRun(lr.result, df', df_filtered')]
    /\ narrowed' = (wasNarrowed \/ Len(df_filtered'.data) < Len(df'.data))

\* The session before the first run of the script: nothing is on the page.
Init ==
    /\ uploaded_file = NoFile
    /\ loaded = [result |-> NoneResult, errors |-> {}, exception |-> NoException]
    /\ widgets = NoWidgets
    /\ df = EmptyDF
    /\ df_filtered = EmptyDF
    /\ kpi = NoKpi
    /\ monthly_analysis = <<>>
    /\ sales_by_category = <<>>
    /\ profit_by_subcat = <<>>
    /\ sales_by_state = <<>>
    /\ progress = "start"
    /\ exception = NoException
    /\ messages = {}
    /\ narrowed = FALSE

\* The first run of the script: the radio is on the sample data.
OpenApp ==
    /\ progress = "start"
    /\ \E present \in BOOLEAN : Run(NoFile, Load(NoFile, present), NoWidgets, FALSE)

\* The user chooses "Upload Your Own File" and puts a file in the uploader.
UploadFile ==
    /\ progress # "start"
    /\ uploaded_file = NoFile
    /\ \E f \in Files : Run(f, Load(f, TRUE), widgets, FALSE)

\* The user removes the upload (or goes back to the sample data).
RemoveUpload ==
    /\ uploaded_file # NoFile
    /\ \E present \in BOOLEAN : Run(NoFile, Load(NoFile, present), widgets, FALSE)

\* The user changes the Region multiselect.
SelectRegion ==
    /\ widgets.region.rendered
    /\ \E S \in SUBSET Range(widgets.region.options) :
          /\ S # widgets.region.value
          /\ Run(uploaded_file, loaded, [widgets EXCEPT !.region.value = S], narrowed)

\* The user changes the Category multiselect.
SelectCategory ==
    /\ widgets.category.rendered
    /\ \E S \in SUBSET Range(widgets.category.options) :
          /\ S # widgets.category.value
          /\ Run(uploaded_file, loaded, [widgets EXCEPT !.category.value = S], narrowed)

\* The user changes the Segment multiselect.
SelectSegment ==
    /\ widgets.segment.rendered
    /\ \E S \in SUBSET Range(widgets.segment.options) :
          /\ S # widgets.segment.value
          /\ Run(uploaded_file, loaded, [widgets EXCEPT !.segment.value = S], narrowed)

Next ==
    \/ OpenApp
    \/ UploadFile
    \/ RemoveUpload
    \/ SelectRegion
    \/ SelectCategory
    \/ SelectSegment

Spec == Init /\ [][Next]_vars

----------------------------------------------------------------------------
(* Properties *)

\* the cell of row i of d under the label
Cell(d, i, label) == d.data[i][ColumnPos(d, label)]

\* the run reached line 99 and built df_filtered
FilterApplied == widgets.segment.rendered

\* the row of df at position i satisfies the current selection
Selected(i) ==
    /\ Cell(df, i, T_Region) \in widgets.region.value
    /\ Cell(df, i, T_Category) \in widgets.category.value
    /\ Cell(df, i, T_Segment) \in widgets.segment.value

\* the current selection holds every value df has in the three fields
SelectionCoversAll ==
    /\ FilterApplied
    /\ Range(Column(df, T_Region)) \subseteq widgets.region.value
    /\ Range(Column(df, T_Category)) \subseteq widgets.category.value
    /\ Range(Column(df, T_Segment)) \subseteq widgets.segment.value

\* C1: a row of the loaded table is in the filtered table if and only if its
\* Region, its Category and its Segment are each in the selected set; so the
\* values of each filtered field in the output are among the selected ones,
\* and no other field decides.
C1_FilterIsConjunctionOfMemberships ==
    FilterApplied =>
        /\ df_filtered.columns = df.columns
        /\ \A i \in 1..Len(df.data) :
              Selected(i) <=>
                  \E k \in 1..Len(df_filtered.data) :
                      /\ df_filtered.index[k] = df.index[i]
                      /\ df_filtered.data[k] = df.data[i]
        /\ \A k \in 1..Len(df_filtered.data) :
              \E i \in 1..Len(df.data) : df_filtered.index[k] = df.index[i]
        /\ Range(Column(df_filtered, T_Region)) \subseteq widgets.region.value
        /\ Range(Column(df_filtered, T_Category)) \subseteq widgets.category.value
        /\ Range(Column(df_filtered, T_Segment)) \subseteq widgets.segment.value

\* A row is excluded by its Category alone (its Region and Segment are
\* selected) while another row is kept.
C1_Witness ==
    /\ FilterApplied
    /\ Len(df_filtered.data) >= 1
    /\ \E i \in 1..Len(df.data) :
          /\ Cell(df, i, T_Region) \in widgets.region.value
          /\ Cell(df, i, T_Segment) \in widgets.segment.value
          /\ Cell(df, i, T_Category) \notin widgets.category.value
          /\ df.index[i] \notin Range(df_filtered.index)

\* C2: with a selection that holds every value of the loaded table in each
\* filtered field, the filtered table is the loaded table: the same rows with
\* the same index labels in the same order, and the loaded table is as the
\* load returned it.
C2_FullSelectionIsIdentity ==
    SelectionCoversAll =>
        /\ df_filtered = df
        /\ df = RenameColumns(loaded.result.df)

\* All values are selected again after a narrower selection, on a table of
\* two rows or more.
C2_Witness ==
    /\ SelectionCoversAll
    /\ narrowed
    /\ Len(df.data) >= 2
    /\ df_filtered = df

\* C3: the profit margin is 100 x (sum of profit) / (sum of sales) when the
\* sum of sales is above 0, and 0 otherwise, the sums being the untruncated
\* ones.
C3_MarginFromUntruncatedSums ==
    KpisShown(progress) =>
        LET sales == SumNum(Column(df_filtered, T_Sales))
            profit == SumNum(Column(df_filtered, T_Profit))
        IN  kpi.profit_margin =
                IF sales > 0 THEN Ratio(100 * profit, sales) ELSE Ratio(0, 1)

\* C4: when the selection excludes every row, the KPIs are 0, 0 and 0 and the
\* run completes without an exception.
C4_EmptyFilterGivesZeroKpis ==
    (FilterApplied /\ Len(df_filtered.data) = 0) =>
        /\ progress = "done"
        /\ exception = NoException
        /\ kpi = [total_sales |-> 0, total_profit |-> 0, profit_margin |-> Ratio(0, 1)]

\* the file the current table comes from
SourceFile == IF uploaded_file = NoFile THEN SampleFile ELSE uploaded_file

\* no column name of the file, normalised, contains "order_date"
NoDateColumn(file) ==
    \A j \in 1..Len(file.columns) :
        ~Contains(StrReplace(StrReplace(StrLower(file.columns[j]), 32, 95), 45, 95),
                  T_order_date)

\* C5: an upload none of whose normalised column names contains "order_date"
\* gives no table (None, not a part of one), an st.error message, and a run
\* that builds no filter, no KPI and no aggregate.
C5_NoDateColumnFailsLoad ==
    (progress # "start" /\ uploaded_file # NoFile /\ NoDateColumn(uploaded_file)) =>
        /\ loaded.result = NoneResult
        /\ messages # {}
        /\ exception = NoException
        /\ progress = "waiting"
        /\ ~widgets.region.rendered
        /\ df = EmptyDF /\ df_filtered = EmptyDF
        /\ kpi = NoKpi /\ monthly_analysis = <<>> /\ sales_by_category = <<>>
        /\ profit_by_subcat = <<>> /\ sales_by_state = <<>>

\* A readable .csv with rows and a "Ship Date" column but no order date was
\* uploaded, and the page shows the message of line 34.
C5_Witness ==
    /\ uploaded_file # NoFile
    /\ uploaded_file.readable
    /\ Len(uploaded_file.rows) >= 1
    /\ uploaded_file.columns = HeaderShipDate
    /\ NoDateColumn(uploaded_file)
    /\ messages = {MsgNoDateCol}
    /\ progress = "waiting"

\* the columns the dashboard reads
RequiredColumns ==
    {T_Region, T_Category, T_Segment, T_Sales, T_Profit, T_MonthYear, T_SubCategory,
     T_State}

\* C6: no input-stage error leaves the load as an exception, and the
\* dashboard is entered only with a table that has every column it reads.
C6_InputErrorsStopAtLoadBoundary ==
    /\ exception = NoException
    /\ progress \notin {"start", "none", "waiting"} =>
          \A c \in RequiredColumns : HasColumn(df, c)

\* "sales" and "profit", the labels load_data leaves on the two columns
T_sales == <<115, 97, 108, 101, 115>>
T_profit == <<112, 114, 111, 102, 105, 116>>

\* the position of the order-date column in the file's header
DateColumnOf(file) ==
    CHOOSE j \in 1..Len(file.columns) :
        /\ Contains(StrReplace(StrReplace(StrLower(file.columns[j]), 32, 95), 45, 95),
                    T_order_date)
        /\ \A k \in 1..(j - 1) :
              ~Contains(StrReplace(StrReplace(StrLower(file.columns[k]), 32, 95), 45, 95),
                        T_order_date)

\* the data rows of the file whose order date parses
ParsableRows(file) ==
    {i \in 1..Len(file.rows) : ParseDate(file.rows[i][DateColumnOf(file)]).t = "date"}

\* C7: the cleaning step removes exactly the rows whose order date does not
\* parse and keeps every other row in the original order; the row count does
\* not grow; every surviving row carries the month period of its date.
C7_CleanDropsExactlyUnparsableDates ==
    (progress # "start" /\ loaded.result.ok) =>
        LET file == SourceFile
            t == loaded.result.df
            j == DateColumnOf(file)
        IN  /\ Len(t.data) <= Len(file.rows)
            /\ {t.index[k] + 1 : k \in 1..Len(t.index)} = ParsableRows(file)
            /\ Len(t.index) = Len(t.data)
            /\ \A k \in 1..Len(t.index), l \in 1..Len(t.index) :
                  k < l => t.index[k] < t.index[l]
            /\ \A k \in 1..Len(t.data) :
                  LET raw == file.rows[t.index[k] + 1]
                  IN  /\ t.data[k][j] = ParseDate(raw[j])
                      /\ \A c \in (1..Len(file.columns)) \ {j} :
                            IF t.data[k][c].t = "str" THEN t.data[k][c].s = raw[c]
                            ELSE t.data[k][c] = NumCell(NumberValue(raw[c]))
                      /\ Cell(t, k, T_month_year) = StrCell(SubSeq(raw[j], 1, 7))

\* A file whose first row has no date and whose second row has one was
\* loaded: the table holds the second row alone, under its label 1.
C7_Witness ==
    /\ uploaded_file # NoFile
    /\ loaded.result.ok
    /\ Len(uploaded_file.rows) = 2
    /\ ParsableRows(uploaded_file) = {2}
    /\ loaded.result.df.index = <<1>>

\* C8: in every table the load returns the sales and profit cells are
\* numbers (a row with another value is dropped), so the sums of the KPIs
\* never meet a value that is not a number.
C8_SalesProfitNumericAfterLoad ==
    /\ loaded.result.ok =>
          \A k \in 1..Len(loaded.result.df.data) :
              \A label \in {T_sales, T_profit} :
                  HasColumn(loaded.result.df, label) =>
                      Cell(loaded.result.df, k, label).t = "num"
    /\ FilterApplied =>
          \A k \in 1..Len(df_filtered.data) :
              \A label \in {T_Sales, T_Profit} :
                  HasColumn(df_filtered, label) => Cell(df_filtered, k, label).t = "num"

\* the position of the first row of df_filtered whose column by holds key
FirstSeen(by, key) ==
    CHOOSE i \in 1..Len(df_filtered.data) :
        /\ Cell(df_filtered, i, by) = key
        /\ \A k \in 1..(i - 1) : Cell(df_filtered, k, by) # key

\* the sum, in tenths, of column label over the rows of df_filtered whose
\* column by holds key
RECURSIVE SumUpTo(_, _, _, _)
SumUpTo(n, by, key, label) ==
    IF n = 0 THEN 0
    ELSE SumUpTo(n - 1, by, key, label)
         + (IF Cell(df_filtered, n, by) = key THEN Cell(df_filtered, n, label).n ELSE 0)

\* rows holds one entry per value of column by, with the sum of column label
IsGroupSum(rows, by, label) ==
    /\ \A i \in 1..Len(rows), k \in 1..Len(rows) : rows[i].key = rows[k].key => i = k
    /\ {rows[i].key : i \in 1..Len(rows)} = Range(Column(df_filtered, by))
    /\ \A i \in 1..Len(rows) :
          rows[i].value = NumCell(SumUpTo(Len(df_filtered.data), by, rows[i].key, label))

\* the year and month (yyyymm) of the rows of df_filtered in a month group
MonthOf(key) ==
    LET i == FirstSeen(T_MonthYear, key)
    IN  df_filtered.data[i][FindDateCol(df_filtered)].n \div 100

\* sales by category is in descending order of value, profit by
\* sub-category in ascending order
SortedAsRequested ==
    /\ IsGroupSum(sales_by_category, T_Category, T_Sales)
    /\ \A i \in 1..Len(sales_by_category), k \in 1..Len(sales_by_category) :
          i < k => sales_by_category[i].value.n >= sales_by_category[k].value.n
    /\ IsGroupSum(profit_by_subcat, T_SubCategory, T_Profit)
    /\ \A i \in 1..Len(profit_by_subcat), k \in 1..Len(profit_by_subcat) :
          i < k => profit_by_subcat[i].value.n <= profit_by_subcat[k].value.n

\* groups of equal sum stand in the order in which their keys are first seen
TiesByFirstSeen ==
    /\ \A i \in 1..Len(sales_by_category), k \in 1..Len(sales_by_category) :
          (i < k /\ sales_by_category[i].value = sales_by_category[k].value) =>
              FirstSeen(T_Category, sales_by_category[i].key)
                  < FirstSeen(T_Category, sales_by_category[k].key)
    /\ \A i \in 1..Len(profit_by_subcat), k \in 1..Len(profit_by_subcat) :
          (i < k /\ profit_by_subcat[i].value = profit_by_subcat[k].value) =>
              FirstSeen(T_SubCategory, profit_by_subcat[i].key)
                  < FirstSeen(T_SubCategory, profit_by_subcat[k].key)

\* the monthly trend holds one entry per month, in chronological order
MonthsChronological ==
    /\ {monthly_analysis[i].key : i \in 1..Len(monthly_analysis)}
           = Range(Column(df_filtered, T_MonthYear))
    /\ \A i \in 1..Len(monthly_analysis), k \in 1..Len(monthly_analysis) :
          i < k => MonthOf(monthly_analysis[i].key) < MonthOf(monthly_analysis[k].key)

\* C9 as stated: the sorted aggregates are in the requested order with ties
\* in first-seen order, and the monthly trend is in chronological order.
C9_SortedWithFirstSeenTies ==
    progress = "done" => (SortedAsRequested /\ TiesByFirstSeen /\ MonthsChronological)

\* C9 as amended: sales by category is in descending order of summed sales,
\* profit by sub-category in ascending order of summed profit, with no order
\* promised among groups of equal sum; the monthly trend is not sorted by
\* value and its months are in chronological order.
C9_SortedByValueMonthsChronological ==
    progress = "done" => (SortedAsRequested /\ MonthsChronological)

\* Two categories of different sales and two sub-categories of different
\* profit are charted, and the monthly trend has two months whose sales are
\* not in ascending order.
C9_Witness ==
    /\ progress = "done"
    /\ Len(sales_by_category) = 2
    /\ sales_by_category[1].value.n > sales_by_category[2].value.n
    /\ Len(profit_by_subcat) = 2
    /\ profit_by_subcat[1].value.n < profit_by_subcat[2].value.n
    /\ Len(monthly_analysis) = 2
    /\ monthly_analysis[1].sales.n > monthly_analysis[2].sales.n

\* C10: whatever selections came before, the page shows the pipeline applied
\* to the table as loaded with the current selection alone: the cached table
\* is what a fresh load gives, and the filtered table, the KPIs and the
\* aggregates are those of that table under the current selection.
C10_OutputsFromLoadedTableAndCurrentSelection ==
    progress # "start" =>
        LET fresh == Load(uploaded_file, loaded.exception.type = "")
            table == IF Guard(fresh) THEN RenameColumns(fresh.result.df) ELSE EmptyDF
            kept == {i \in 1..Len(table.data) :
                        /\ table.data[i][ColumnPos(table, T_Region)]
                               \in widgets.region.value
                        /\ table.data[i][ColumnPos(table, T_Category)]
                               \in widgets.category.value
                        /\ table.data[i][ColumnPos(table, T_Segment)]
                               \in widgets.segment.value}
        IN  /\ loaded = fresh
            /\ df = table
            /\ FilterApplied =>
                  /\ Range(df_filtered.index) = {table.index[i] : i \in kept}
                  /\ Len(df_filtered.data) = Cardinality(kept)
                  /\ \A k \in 1..Len(df_filtered.data) :
                        \E i \in kept : /\ table.index[i] = df_filtered.index[k]
                                        /\ table.data[i] = df_filtered.data[k]
            /\ KpisShown(progress) =>
                  /\ kpi.total_sales = Trunc(SumNum(Column(df_filtered, T_Sales)))
                  /\ kpi.total_profit = Trunc(SumNum(Column(df_filtered, T_Profit)))
            /\ progress = "done" =>
                  /\ IsGroupSum(sales_by_category, T_Category, T_Sales)
                  /\ IsGroupSum(profit_by_subcat, T_SubCategory, T_Profit)
                  /\ IsGroupSum(sales_by_state, T_State, T_Sales)
                  /\ SelectionCoversAll =>
                        kpi.total_sales = Trunc(SumNum(Column(table, T_Sales)))

\* After a narrower selection every value is selected again, and the page
\* shows the totals of the whole table of two rows.
C10_Witness ==
    /\ narrowed
    /\ SelectionCoversAll
    /\ progress = "done"
    /\ Len(loaded.result.df.data) = 2
    /\ Len(df_filtered.data) = 2
    /\ kpi.total_sales = 4

====
